---- MODULE Spec2Model ----
(***************************************************************************)
(* The four patch scripts of the repository as one state machine:          *)
(*   remove-todos.py       line-indexed deletion + one literal replacement *)
(*   add-wrapper-methods.py  regex-anchored insertion of a fixed text      *)
(*   integrate.py            regex-anchored insertion of a text read from  *)
(*                           a second file                                 *)
(*   update-interface.py     one unconditional literal replacement         *)
(* Text is modelled by TLA+ strings (Len, SubSeq and \o are Python's len,  *)
(* slicing and +).  The tables and literals the scripts carry              *)
(* (files_to_update, special_replacements, old_closing/new_closing) and    *)
(* the files on disk are the inputs; Init draws them from bounded sets.    *)
(***************************************************************************)
EXTENDS Integers, Sequences, FiniteSets, TLC

VARIABLES
    script,        \* which script is running
    pc,            \* position in the script
    disk,          \* content of the patched file on disk, or NoFile
    methods_file,  \* content of src/workers/pdfWorker-new-methods.ts, or NoFile
    todo_lines,    \* files_to_update[filepath]: sequence of <<line_num, expected_content>>
    special,       \* the search/replace pair of the file, or NoRepl
    content,       \* the in-memory text
    new_methods,   \* the text an insertion script inserts
    updated_content,  \* the text an insertion script has put together to write
    lines,         \* the in-memory line list of remove_todos
    todo,          \* the targets the deletion loop has still to visit
    cur,           \* the loop variables <<line_num, expected_content>> of the last iteration
    writes,        \* number of times this run wrote the patched file
    out,           \* what the run printed
    runs,          \* how many times the script was started on this file
    orig,          \* the text as read by this run
    prev,          \* the line list before the last operation of remove_todos
    alive,         \* for each line of `lines`, its 1-based position in the file as read
    removed        \* one <<line_num, position as read>> per `del lines[idx]`

vars == <<script, pc, disk, methods_file, todo_lines, special, content, new_methods,
          updated_content, lines,
          todo, cur, writes, out, runs, orig, prev, alive, removed>>

\* a path holds no file, or a file with a text
NoFile == <<>>
File(text) == <<text>>
Text(f) == f[1]
NoRepl == [none |-> TRUE]
NoTarget == <<>>

(***************************************************************************)
(* Bounds of the model.                                                    *)
(***************************************************************************)
MaxLines == 2
MaxTargets == 2
MaxPieces == 3
MaxRuns == 2
MaxBufLen == 4
MaxLitLen == 2

(***************************************************************************)
(* Python string primitives.                                               *)
(***************************************************************************)
\* the ASCII characters in code-point order (str comparison is by code point); the
\* grave accent, which no text of the model holds, is left out
Ascii == "\t\n !\"#$%&'()*+,-./0123456789:;<=>?@ABCDEFGHIJKLMNOPQRSTUVWXYZ[\\]^_abcdefghijklmnopqrstuvwxyz{|}~"

Ord(c) == CHOOSE i \in 1..Len(Ascii) : SubSeq(Ascii, i, i) = c

Char(s, i) == SubSeq(s, i, i)

\* s[i:] with a 1-based i
From(s, i) == SubSeq(s, i, Len(s))

\* s < t on str
RECURSIVE StrLess(_, _)
StrLess(s, t) ==
    IF t = "" THEN FALSE
    ELSE IF s = "" THEN TRUE
    ELSE IF Char(s, 1) = Char(t, 1) THEN StrLess(From(s, 2), From(t, 2))
    ELSE Ord(Char(s, 1)) < Ord(Char(t, 1))

\* a < b on (int, str) tuples
TupleLess(a, b) == \/ a[1] < b[1]
                   \/ a[1] = b[1] /\ StrLess(a[2], b[2])

\* str.find, 1-based, 0 when absent; start is 1-based
Find(buf, s, start) ==
    LET hits == {i \in start..(Len(buf) - Len(s) + 1) : SubSeq(buf, i, i + Len(s) - 1) = s}
    IN  IF hits = {} THEN 0 ELSE CHOOSE i \in hits : \A j \in hits : i <= j

\* s in buf
Contains(buf, s) == Find(buf, s, 1) # 0

\* buf.count(s): non-overlapping occurrences, leftmost first
RECURSIVE Count(_, _)
Count(buf, s) ==
    IF s = "" THEN Len(buf) + 1
    ELSE LET i == Find(buf, s, 1)
         IN  IF i = 0 THEN 0 ELSE 1 + Count(From(buf, i + Len(s)), s)

\* buf.replace(s, r)
RECURSIVE ReplaceNonEmpty(_, _, _)
ReplaceNonEmpty(buf, s, r) ==
    LET i == Find(buf, s, 1)
    IN  IF i = 0 THEN buf
        ELSE SubSeq(buf, 1, i - 1) \o r \o ReplaceNonEmpty(From(buf, i + Len(s)), s, r)

RECURSIVE Interleave(_, _)
Interleave(buf, r) ==
    IF buf = "" THEN r ELSE r \o Char(buf, 1) \o Interleave(From(buf, 2), r)

ReplaceFirstHit(buf, s, r) ==
    LET i == Find(buf, s, 1)
    IN  IF i = 0 \/ s = "" THEN buf
        ELSE SubSeq(buf, 1, i - 1) \o r \o From(buf, i + Len(s))

Replace(buf, s, r) ==
    IF s = "" THEN Interleave(buf, r) ELSE ReplaceNonEmpty(buf, s, r)

IsSpace(c) == c \in {" ", "\t", "\n"}

RECURSIVE LStrip(_)
LStrip(s) == IF s # "" /\ IsSpace(Char(s, 1)) THEN LStrip(From(s, 2)) ELSE s

RECURSIVE RStrip(_)
RStrip(s) ==
    IF s # "" /\ IsSpace(Char(s, Len(s))) THEN RStrip(SubSeq(s, 1, Len(s) - 1)) ELSE s

\* s.strip()
Strip(s) == RStrip(LStrip(s))

\* f.readlines() / s.splitlines(keepends=True): the text cut after every "\n"
RECURSIVE SplitKeepEnds(_)
SplitKeepEnds(s) ==
    IF s = "" THEN <<>>
    ELSE LET i == Find(s, "\n", 1)
         IN  IF i = 0 THEN <<s>>
             ELSE <<SubSeq(s, 1, i)>> \o SplitKeepEnds(From(s, i + 1))

\* ''.join(ls), and what f.writelines(ls) puts in the file
RECURSIVE Join(_)
Join(ls) == IF ls = <<>> THEN "" ELSE Head(ls) \o Join(Tail(ls))

\* s.split('\n')
RECURSIVE SplitNl(_)
SplitNl(s) ==
    LET i == Find(s, "\n", 1)
    IN  IF i = 0 THEN <<s>>
        ELSE <<SubSeq(s, 1, i - 1)>> \o SplitNl(From(s, i + 1))

\* '\n'.join(ls)
RECURSIVE JoinNl(_)
JoinNl(ls) ==
    IF ls = <<>> THEN ""
    ELSE IF Len(ls) = 1 THEN ls[1]
    ELSE ls[1] \o "\n" \o JoinNl(Tail(ls))

\* a list without its element at the 1-based position p
DelAt(ls, p) == SubSeq(ls, 1, p - 1) \o SubSeq(ls, p + 1, Len(ls))

(***************************************************************************)
(* remove-todos.py                                                         *)
(***************************************************************************)
\* 'TODO', the marker of the content check
Marker == "TODO"

\* the list with x put before the first element that is not greater than x
RECURSIVE InsertDesc(_, _)
InsertDesc(x, s) ==
    IF s = <<>> THEN <<x>>
    ELSE IF TupleLess(x, Head(s)) THEN <<Head(s)>> \o InsertDesc(x, Tail(s))
    ELSE <<x>> \o s

RECURSIVE SortDesc(_)
SortDesc(s) == IF s = <<>> THEN <<>> ELSE InsertDesc(Head(s), SortDesc(Tail(s)))

SortedAsGiven(s) == s

\* sorted(todo_lines, reverse=True)
SortedReverse(s) == SortDesc(s)

\* the 1-based position lines[idx] denotes, 0 when it raises IndexError
Position(idx, n) ==
    IF 0 <= idx /\ idx < n THEN idx + 1
    ELSE IF idx < 0 /\ -n <= idx THEN n + idx + 1
    ELSE 0

MatchesAlways(line, expected_content) == TRUE

\* 'TODO' in lines[idx] or expected_content.strip() in lines[idx]
Matches(line, expected_content) ==
    Contains(line, Marker) \/ Contains(line, Strip(expected_content))

ContentAsRead == orig

\* content = ''.join(lines)
JoinedLines == Join(lines)

\* for filepath ...: if not os.path.exists(filepath): print; continue
FileNotFound ==
    /\ script = "remove_todos" /\ pc = "start" /\ disk = NoFile
    /\ out' = Append(out, "File not found")
    /\ pc' = "done"
    /\ UNCHANGED <<script, updated_content, disk, methods_file, todo_lines, special,
                   content, new_methods, lines, todo, cur, writes, runs, orig, prev,
                   alive, removed>>

\* lines = f.readlines(); the for statement evaluates sorted(...) once
ReadLines ==
    /\ script = "remove_todos" /\ pc = "start" /\ disk # NoFile
    /\ lines' = SplitKeepEnds(Text(disk))
    /\ orig' = Text(disk)
    /\ prev' = SplitKeepEnds(Text(disk))
    /\ alive' = [i \in 1..Len(SplitKeepEnds(Text(disk))) |-> i]
    /\ todo' = SortedReverse(todo_lines)
    /\ pc' = "delete"
    /\ UNCHANGED <<script, updated_content, disk, methods_file, todo_lines, special,
                   content, new_methods, cur, writes, out, runs, removed>>

IndexError == -1

\* what one iteration does to the list ls for the target t = <<line_num, expected_content>>:
\* the 1-based position it deletes, 0 when it deletes nothing, IndexError when
\* lines[idx] raises
Deleted(ls, t) ==
    LET idx == t[1] - 1
        p == Position(idx, Len(ls))
    IN  IF idx < Len(ls)
        THEN IF p = 0 THEN IndexError
             ELSE IF Matches(ls[p], t[2]) THEN p ELSE 0
        ELSE 0

\* the list the whole loop leaves, run over the targets ts in the order given
RECURSIVE RunLoop(_, _)
RunLoop(ls, ts) ==
    IF ts = <<>> THEN ls
    ELSE LET d == Deleted(ls, Head(ts))
         IN  IF d = IndexError THEN ls
             ELSE RunLoop(IF d = 0 THEN ls ELSE DelAt(ls, d), Tail(ts))

\* one iteration of the deletion loop
DeleteStep ==
    /\ script = "remove_todos" /\ pc = "delete" /\ todo # <<>>
    /\ LET d == Deleted(lines, Head(todo))
       IN  /\ cur' = Head(todo)
           /\ todo' = Tail(todo)
           /\ prev' = lines
           /\ IF d = IndexError
              THEN \* the script ends in a traceback
                   /\ pc' = "crashed"
                   /\ UNCHANGED <<lines, alive, removed, out>>
              ELSE IF d # 0
                   THEN /\ lines' = DelAt(lines, d)
                        /\ alive' = DelAt(alive, d)
                        /\ removed' = Append(removed, <<Head(todo)[1], alive[d]>>)
                        /\ out' = Append(out, "Removed TODO")
                        /\ pc' = "delete"
                   ELSE UNCHANGED <<lines, alive, removed, out, pc>>
    /\ UNCHANGED <<script, updated_content, disk, methods_file, todo_lines, special,
                   content, new_methods, writes, runs, orig>>

\* if filepath in special_replacements: ... (after the loop)
ApplySpecial ==
    /\ script = "remove_todos" /\ pc = "delete" /\ todo = <<>>
    /\ IF special # NoRepl
       THEN IF Contains(JoinedLines, special.search)
            THEN /\ content' = Replace(JoinedLines, special.search, special.replace)
                 /\ lines' = SplitKeepEnds(Replace(JoinedLines, special.search, special.replace))
                 /\ out' = Append(out, "Applied special replacement")
            ELSE /\ content' = JoinedLines
                 /\ UNCHANGED <<lines, out>>
       ELSE UNCHANGED <<content, lines, out>>
    /\ prev' = lines
    /\ pc' = "write"
    /\ UNCHANGED <<script, updated_content, disk, methods_file, todo_lines, special,
                   new_methods, todo, cur, writes, runs, orig, alive, removed>>

\* with open(filepath, 'w') as f: f.writelines(lines)
WriteLines ==
    /\ script = "remove_todos" /\ pc = "write"
    /\ disk' = File(Join(lines))
    /\ writes' = writes + 1
    /\ out' = Append(out, "Updated")
    /\ pc' = "done"
    /\ UNCHANGED <<script, updated_content, methods_file, todo_lines, special, content,
                   new_methods, lines, todo, cur, runs, orig, prev, alive, removed>>

\* all sequences over S of length at most n
SeqsUpTo(S, n) == UNION {[1..k -> S] : k \in 0..n}

LineChoices == {"a\n", "// TODO\n", "b\n"}

\* the file ends with "\n" or its last line has none
FileTexts ==
    LET whole == {Join(ls) : ls \in SeqsUpTo(LineChoices, MaxLines)}
    IN  whole \cup {SubSeq(t, 1, Len(t) - 1) : t \in whole \ {""}}

FragChoices == {" b", "a"}

TargetChoices == (0..(MaxLines + 1)) \X FragChoices

ReplChoices == {NoRepl, [search |-> "a", replace |-> "c"], [search |-> "b", replace |-> "bb"]}

InitCommon ==
    /\ pc = "start"
    /\ content = ""
    /\ new_methods = ""
    /\ updated_content = ""
    /\ lines = <<>>
    /\ todo = <<>>
    /\ cur = NoTarget
    /\ writes = 0
    /\ out = <<>>
    /\ runs = 1
    /\ orig = ""
    /\ prev = <<>>
    /\ alive = <<>>
    /\ removed = <<>>

InitTodos ==
    /\ script = "remove_todos"
    /\ disk \in {File(t) : t \in FileTexts} \cup {NoFile}
    /\ methods_file = NoFile
    /\ todo_lines \in SeqsUpTo(TargetChoices, MaxTargets)
    /\ special \in ReplChoices
    /\ InitCommon

NextTodos == FileNotFound \/ ReadLines \/ DeleteStep \/ ApplySpecial \/ WriteLines

SpecTodos == InitTodos /\ [][NextTodos]_vars

(***************************************************************************)
(* add-wrapper-methods.py and integrate.py                                 *)
(***************************************************************************)
\* new_methods of add-wrapper-methods.py, character for character
WrapperMethods ==
    "\n" \o
    "  // PDF Worker Methods - Encryption & Forms\n" \o
    "  async analyzeEncryption(pdfData: Uint8Array): Promise<any> {\n" \o
    "    const worker = await this.getPDFWorker()\n" \o
    "    return worker.analyzeEncryption(pdfData)\n" \o
    "  }\n" \o
    "\n" \o
    "  async testPassword(pdfData: Uint8Array, password: string): Promise<boolean> {\n" \o
    "    const worker = await this.getPDFWorker()\n" \o
    "    return worker.testPassword(pdfData, password)\n" \o
    "  }\n" \o
    "\n" \o
    "  async detectFormFields(pdfData: Uint8Array): Promise<any[]> {\n" \o
    "    const worker = await this.getPDFWorker()\n" \o
    "    return worker.detectFormFields(pdfData)\n" \o
    "  }\n" \o
    "\n" \o
    "  async fillForms(pdfData: Uint8Array, formData: Record<string, any>): Promise<Uint8Array> {\n" \o
    "    const worker = await this.getPDFWorker()\n" \o
    "    return worker.fillForms(pdfData, formData)\n" \o
    "  }\n" \o
    "\n" \o
    "  async convertToGrayscalePDF(pdfData: Uint8Array): Promise<Uint8Array> {\n" \o
    "    const worker = await this.getPDFWorker()\n" \o
    "    return worker.convertToGrayscale(pdfData)\n" \o
    "  }\n" \o
    "\n" \o
    "  async convertImageToPDF(imageData: Uint8Array, options: any = {}): Promise<Uint8Array> {\n" \o
    "    const worker = await this.getPDFWorker()\n" \o
    "    return worker.convertImageToPDF(imageData, options)\n" \o
    "  }\n" \o
    "\n" \o
    "  async convertPDFPageToImage(\n" \o
    "    pdfData: Uint8Array,\n" \o
    "    pageIndex: number,\n" \o
    "    format: 'png' | 'jpeg' | 'webp' = 'png'\n" \o
    "  ): Promise<Uint8Array> {\n" \o
    "    const worker = await this.getPDFWorker()\n" \o
    "    return worker.convertPDFPageToImage(pdfData, pageIndex, format)\n" \o
    "  }\n" \o
    "\n" \o
    "  async createSearchablePDF(pdfData: Uint8Array, options: any = {}): Promise<Uint8Array> {\n" \o
    "    const worker = await this.getPDFWorker()\n" \o
    "    return worker.createSearchablePDF(pdfData, options)\n" \o
    "  }\n" \o
    "\n" \o
    "  async compressPDF(pdfData: Uint8Array, options: any = {}): Promise<Uint8Array> {\n" \o
    "    const worker = await this.getPDFWorker()\n" \o
    "    return worker.compressPDF(pdfData, options)\n" \o
    "  }\n" \o
    "\n" \o
    "  async encryptPDF(\n" \o
    "    pdfData: Uint8Array,\n" \o
    "    userPassword: string,\n" \o
    "    ownerPassword?: string,\n" \o
    "    permissions?: any\n" \o
    "  ): Promise<Uint8Array> {\n" \o
    "    const worker = await this.getPDFWorker()\n" \o
    "    return worker.encryptPDF(pdfData, userPassword, ownerPassword, permissions)\n" \o
    "  }\n" \o
    "\n" \o
    "  async decryptPDF(pdfData: Uint8Array, password: string): Promise<Uint8Array> {\n" \o
    "    const worker = await this.getPDFWorker()\n" \o
    "    return worker.decryptPDF(pdfData, password)\n" \o
    "  }\n"

\* the text the pattern of add-wrapper-methods.py matches: no metacharacter is left
\* unescaped in r'(\}\n\n// Export singleton instance)'
WrapperAnchor == "}\n\n// Export singleton instance"

\* re.search(pattern, content).start() in add-wrapper-methods.py, 1-based; 0 for None
WrapperSearch(text) == Find(text, WrapperAnchor, 1)

ExposeCall == "expose(new PDFWorker())"

\* r'(\}\s*\n\s*expose\(new PDFWorker\(\)\))' matches at i: a "}", then white space
\* holding at least one "\n", then the call
IntegrateMatchAt(text, i) ==
    /\ Char(text, i) = "}"
    /\ \E j \in (i + 2)..(Len(text) - Len(ExposeCall) + 1) :
          /\ \A k \in (i + 1)..(j - 1) : IsSpace(Char(text, k))
          /\ \E k \in (i + 1)..(j - 1) : Char(text, k) = "\n"
          /\ SubSeq(text, j, j + Len(ExposeCall) - 1) = ExposeCall

\* re.search(pattern, content).start() in integrate.py, 1-based; 0 for None
IntegrateSearch(text) ==
    LET hits == {i \in 1..Len(text) : IntegrateMatchAt(text, i)}
    IN  IF hits = {} THEN 0 ELSE CHOOSE i \in hits : \A j \in hits : i <= j

Search(text) ==
    IF script = "add_wrapper" THEN WrapperSearch(text) ELSE IntegrateSearch(text)

\* '\n'.join(new_methods_content.split('\n')[3:])
ExtractMethods(text) == JoinNl(SubSeq(SplitNl(text), 4, Len(SplitNl(text))))

\* what the script puts at insert_pos
Inserted ==
    IF script = "add_wrapper" THEN new_methods \o "\n" ELSE "\n" \o new_methods \o "\n"

SpliceUnlessPresent(text, pos, ins) ==
    IF Contains(text, ins) THEN text
    ELSE SubSeq(text, 1, pos - 1) \o ins \o From(text, pos)

SpliceAfterMatch(text, pos, ins) ==
    SubSeq(text, 1, pos) \o ins \o From(text, pos + 1)

\* content[:insert_pos] + ins + content[insert_pos:], pos = insert_pos + 1
Splice(text, pos, ins) == SubSeq(text, 1, pos - 1) \o ins \o From(text, pos)

Inserting == script \in {"add_wrapper", "integrate"}

\* with open(..., 'r') as f: content = f.read()
ReadContent ==
    /\ script \in {"add_wrapper", "integrate", "update_interface"}
    /\ pc = "start" /\ disk # NoFile
    /\ content' = Text(disk)
    /\ orig' = Text(disk)
    /\ new_methods' = IF script = "add_wrapper" THEN WrapperMethods ELSE new_methods
    /\ pc' = CASE script = "add_wrapper" -> "search"
               [] script = "integrate" -> "read_methods"
               [] OTHER -> "replace"
    /\ UNCHANGED <<script, updated_content, disk, methods_file, todo_lines, special,
                   lines, todo, cur, writes, out, runs, prev, alive, removed>>

\* open() raises FileNotFoundError: the script ends in a traceback
OpenFails ==
    /\ \/ script \in {"add_wrapper", "integrate", "update_interface"}
          /\ pc = "start" /\ disk = NoFile
       \/ script = "integrate" /\ pc = "read_methods" /\ methods_file = NoFile
    /\ pc' = "crashed"
    /\ UNCHANGED <<script, updated_content, disk, methods_file, todo_lines, special,
                   content, new_methods, lines, todo, cur, writes, out, runs, orig,
                   prev, alive, removed>>

\* integrate.py: read the new methods and drop the first 3 lines
ReadMethods ==
    /\ script = "integrate" /\ pc = "read_methods" /\ methods_file # NoFile
    /\ new_methods' = ExtractMethods(Text(methods_file))
    /\ pc' = "search"
    /\ UNCHANGED <<script, updated_content, disk, methods_file, todo_lines, special,
                   content, lines, todo, cur, writes, out, runs, orig, prev, alive,
                   removed>>

\* if match: insert, write back, print
InsertMethods ==
    /\ Inserting /\ pc = "search"
    /\ Search(content) # 0
    /\ updated_content' = Splice(content, Search(content), Inserted)
    /\ disk' = File(Splice(content, Search(content), Inserted))
    /\ writes' = writes + 1
    /\ out' = Append(out, "Successfully added")
    /\ pc' = "done"
    /\ UNCHANGED <<script, content, methods_file, todo_lines, special, new_methods,
                   lines, todo, cur, runs, orig, prev, alive, removed>>

NoInsertionPointWrites ==
    /\ Inserting /\ pc = "search"
    /\ Search(content) = 0
    /\ disk' = File(content)
    /\ writes' = writes + 1
    /\ out' = Append(out, "ERROR: Could not find insertion point")
    /\ pc' = "done"
    /\ UNCHANGED <<script, updated_content, methods_file, todo_lines, special, content,
                   new_methods, lines, todo, cur, runs, orig, prev, alive, removed>>

\* else: print('ERROR: Could not find insertion point')
NoInsertionPoint ==
    /\ Inserting /\ pc = "search"
    /\ Search(content) = 0
    /\ out' = Append(out, "ERROR: Could not find insertion point")
    /\ pc' = "done"
    /\ UNCHANGED <<script, updated_content, disk, methods_file, todo_lines, special,
                   content, new_methods, lines, todo, cur, writes, runs, orig, prev,
                   alive, removed>>

\* the script is started again on the file it left
Rerun ==
    /\ Inserting /\ pc = "done" /\ runs < MaxRuns
    /\ runs' = runs + 1
    /\ writes' = 0
    /\ content' = ""
    /\ new_methods' = ""
    /\ updated_content' = ""
    /\ pc' = "start"
    /\ UNCHANGED <<script, disk, methods_file, todo_lines, special, lines, todo, cur,
                   out, orig, prev, alive, removed>>

\* concatenations of at most n pieces
RECURSIVE Concats(_, _)
Concats(P, n) ==
    IF n = 0 THEN {""}
    ELSE Concats(P, n - 1) \cup {t \o q : t \in Concats(P, n - 1), q \in P}

WrapperPieces == {"}", "\n", "x", WrapperAnchor}

IntegratePieces == {"}", "\n", " ", "x", ExposeCall}

\* the class of the spec's scenario, closed before the anchor of integrate.py
ScenarioText == "class X {\n  f() {}\n}\n\n" \o ExposeCall

ScenarioMethods == "// 1\n// 2\n// 3\n  g() {}\n"

MethodsChoices ==
    {ScenarioMethods, "", "x", "\n\n\n\n", "// 1\n// 2\n// 3\n}", "// 1\n// 2\n// 3\nx",
     "// 1\n// 2\n// 3\n}\n" \o ExposeCall}

InitInsert ==
    /\ \/ /\ script = "add_wrapper"
          /\ disk \in {File(t) : t \in Concats(WrapperPieces, MaxPieces)} \cup {NoFile}
          /\ methods_file = NoFile
       \/ /\ script = "integrate"
          /\ disk \in {File(t) : t \in Concats(IntegratePieces, MaxPieces) \cup {ScenarioText}}
                      \cup {NoFile}
          /\ methods_file \in {File(t) : t \in MethodsChoices} \cup {NoFile}
    /\ todo_lines = <<>>
    /\ special = NoRepl
    /\ InitCommon

NextInsert ==
    ReadContent \/ OpenFails \/ ReadMethods \/ InsertMethods \/ NoInsertionPoint \/ Rerun

SpecInsert == InitInsert /\ [][NextInsert]_vars

(***************************************************************************)
(* update-interface.py                                                     *)
(***************************************************************************)
InterfaceMethods ==
    "  analyzeEncryption: (pdfData: Uint8Array) => Promise<any>\n" \o
    "  testPassword: (pdfData: Uint8Array, password: string) => Promise<boolean>\n" \o
    "  detectFormFields: (pdfData: Uint8Array) => Promise<any[]>\n" \o
    "  fillForms: (pdfData: Uint8Array, formData: Record<string, any>) => Promise<Uint8Array>\n" \o
    "  convertToGrayscale: (pdfData: Uint8Array) => Promise<Uint8Array>\n" \o
    "  convertImageToPDF: (imageData: Uint8Array, options: any) => Promise<Uint8Array>\n" \o
    "  convertPDFPageToImage: (pdfData: Uint8Array, pageIndex: number, format: 'png' | 'jpeg' | 'webp') => Promise<Uint8Array>\n" \o
    "  createSearchablePDF: (pdfData: Uint8Array, options: any) => Promise<Uint8Array>\n" \o
    "}"

OldClosing == "  sanitizePDF: (pdfData: Uint8Array, options: any) => Promise<Uint8Array>\n}"

NewClosing ==
    "  sanitizePDF: (pdfData: Uint8Array, options: any) => Promise<Uint8Array>\n  "
    \o InterfaceMethods

\* content = content.replace(old_closing, new_closing); write back; print
ReplaceClosing ==
    /\ script = "update_interface" /\ pc = "replace"
    /\ content' = Replace(content, special.search, special.replace)
    /\ disk' = File(Replace(content, special.search, special.replace))
    /\ writes' = writes + 1
    /\ out' = Append(out, "Successfully updated")
    /\ pc' = "done"
    /\ UNCHANGED <<script, updated_content, methods_file, todo_lines, special,
                   new_methods, lines, todo, cur, runs, orig, prev, alive, removed>>

\* all strings over the characters of `chars` of length at most n
RECURSIVE Strings(_, _)
Strings(chars, n) ==
    IF n = 0 THEN {""}
    ELSE Strings(chars, n - 1) \cup {t \o c : t \in Strings(chars, n - 1), c \in chars}

Letters == {"a", "b"}

InterfaceTexts ==
    {"interface PDFWorkerAPI {\n" \o OldClosing \o "\n",
     OldClosing \o OldClosing,
     "interface PDFWorkerAPI {\n" \o NewClosing \o "\n"}

InitSubst ==
    /\ script = "update_interface"
    /\ \/ /\ disk \in {File(t) : t \in Strings(Letters, MaxBufLen)} \cup {NoFile}
          /\ special \in {[search |-> s, replace |-> r] :
                             s \in Strings(Letters, MaxLitLen), r \in Strings(Letters, MaxLitLen)}
       \/ /\ disk \in {File(t) : t \in InterfaceTexts}
          /\ special = [search |-> OldClosing, replace |-> NewClosing]
    /\ methods_file = NoFile
    /\ todo_lines = <<>>
    /\ InitCommon

NextSubst == ReadContent \/ OpenFails \/ ReplaceClosing

SpecSubst == InitSubst /\ [][NextSubst]_vars

(***************************************************************************)
(* Any of the four scripts.                                                *)
(***************************************************************************)
Init == InitTodos \/ InitInsert \/ InitSubst

Next ==
    \/ FileNotFound \/ ReadLines \/ DeleteStep \/ ApplySpecial \/ WriteLines
    \/ ReadContent \/ OpenFails \/ ReadMethods \/ InsertMethods \/ NoInsertionPoint
    \/ Rerun \/ ReplaceClosing

Spec == Init /\ [][Next]_vars

(***************************************************************************)
(* Properties of the deletion loop of remove_todos.                        *)
(***************************************************************************)
\* the lines of the file as this run read it
OrigLines == SplitKeepEnds(orig)

\* the deletion loop has visited its last target, or died on one
LoopOver ==
    /\ script = "remove_todos"
    /\ \/ pc = "delete" /\ todo = <<>>
       \/ pc = "crashed"

\* a loop iteration has just run on the target cur, from the list prev
StepTaken ==
    /\ script = "remove_todos"
    /\ pc \in {"delete", "crashed"}
    /\ cur # NoTarget

\* every reordering of the sequence s
Reorderings(s) ==
    {[i \in 1..Len(s) |-> s[f[i]]] : f \in Permutations(1..Len(s))}

\* the lines of ls at the positions outside D, in order
RECURSIVE Without(_, _, _)
Without(ls, D, k) ==
    IF ls = <<>> THEN <<>>
    ELSE (IF k \in D THEN <<>> ELSE <<Head(ls)>>) \o Without(Tail(ls), D, k + 1)

\* C1: when the deletion loop is over, the line list is the one the loop leaves for
\* every reordering of the target list the caller gave.
C1_OrderIndependent ==
    LoopOver =>
        \A ts \in Reorderings(todo_lines) :
            RunLoop(OrigLines, SortedReverse(ts)) = lines

\* two targets given in ascending order, both deleted
C1_Witness ==
    /\ LoopOver /\ pc = "delete"
    /\ Len(todo_lines) = 2
    /\ todo_lines[1][1] < todo_lines[2][1]
    /\ Len(removed) = 2

\* C2 as stated: an iteration on a target inside the list changes the list only if
\* the line at lineNumber contains 'TODO' or contains expectedFragment.
C2_AsStated ==
    (StepTaken /\ cur[1] \in 1..Len(prev)) =>
        \/ Contains(prev[cur[1]], "TODO")
        \/ Contains(prev[cur[1]], cur[2])
        \/ lines = prev

\* C2 amended: an iteration on a target inside the list removes at most the line at
\* lineNumber, and removes it only if that line contains 'TODO' or contains
\* expectedFragment stripped of its leading and trailing white space; otherwise the
\* list is unchanged.
C2_StrippedGuard ==
    (StepTaken /\ cur[1] \in 1..Len(prev)) =>
        /\ lines # prev => lines = DelAt(prev, cur[1])
        /\ lines # prev =>
              \/ Contains(prev[cur[1]], "TODO")
              \/ Contains(prev[cur[1]], Strip(cur[2]))
        /\ pc = "delete"

\* the line "b\n" goes for the fragment " b", which it does not contain
C2_Witness ==
    /\ StepTaken /\ cur[1] \in 1..Len(prev)
    /\ cur[2] = " b"
    /\ prev[cur[1]] = "b\n"
    /\ lines = DelAt(prev, cur[1])

\* C7 (for targets with line numbers of 1 and more): every removed line stood at
\* its target's line number in the file as read, and the loop leaves the lines as
\* read without exactly the target positions that pass the content check.
C7_IndexStable ==
    (script = "remove_todos" /\ \A i \in 1..Len(todo_lines) : todo_lines[i][1] >= 1) =>
        /\ \A i \in 1..Len(removed) : removed[i][1] = removed[i][2]
        /\ LoopOver =>
              lines = Without(OrigLines,
                              {todo_lines[i][1] : i \in
                                  {j \in 1..Len(todo_lines) :
                                      /\ todo_lines[j][1] <= Len(OrigLines)
                                      /\ Matches(OrigLines[todo_lines[j][1]], todo_lines[j][2])}},
                              1)

\* C10: an iteration on a target whose line number is not in 1..(line count)
\* leaves the line list as it was.
C10_OutOfRangeKeeps ==
    (StepTaken /\ cur[1] \notin 1..Len(prev)) => lines = prev

\* C6: an operation that does not apply leaves the buffer as it was and the run
\* goes on: a deletion target out of range or failing the content check, a
\* replacement whose literal is not found, an insertion whose anchor is not found.
C6_BestEffort ==
    /\ script = "remove_todos" => pc # "crashed"
    /\ (StepTaken /\ (cur[1] \notin 1..Len(prev) \/ ~Matches(prev[cur[1]], cur[2]))) =>
          lines = prev
    /\ (script = "remove_todos" /\ pc = "write" /\ special # NoRepl
            /\ ~Contains(Join(prev), special.search)) =>
          lines = prev
    /\ (Inserting /\ pc = "done" /\ Search(orig) = 0) => disk = File(orig)

(***************************************************************************)
(* Order of the operations of remove_todos.                                *)
(***************************************************************************)
\* the lines as read that the deletion loop left in the list
Survivors == [i \in 1..Len(alive) |-> OrigLines[alive[i]]]

\* the positions, in the file as read, of the lines that contain s
Holding(s) == {i \in 1..Len(OrigLines) : Contains(OrigLines[i], s)}

\* C9: the replacement is evaluated after the last deletion and on the text the
\* deletions left; when every line that held the search literal was deleted, the
\* replacement is not applied and the file written is the surviving lines, untouched.
C9_ReplaceAfterDeletions ==
    script = "remove_todos" =>
        /\ (pc \in {"write", "done"} /\ disk # NoFile) =>
              /\ todo = <<>>
              /\ Join(lines) = IF special = NoRepl THEN Join(Survivors)
                               ELSE Replace(Join(Survivors), special.search, special.replace)
        /\ (pc = "done" /\ disk # NoFile /\ special # NoRepl
               /\ Holding(special.search) # {}
               /\ \A i \in 1..Len(alive) : alive[i] \notin Holding(special.search)) =>
              /\ \A i \in 1..Len(out) : out[i] # "Applied special replacement"
              /\ disk = File(Join(Survivors))
              /\ Count(Text(disk), special.replace) <= Count(orig, special.replace)

\* the only line holding the search literal "a" was deleted; another line stays
C9_Witness ==
    /\ script = "remove_todos" /\ pc = "done" /\ disk # NoFile
    /\ special = [search |-> "a", replace |-> "c"]
    /\ Holding("a") # {}
    /\ \A i \in 1..Len(alive) : alive[i] \notin Holding("a")
    /\ Len(alive) > 0
    /\ Len(removed) > 0

(***************************************************************************)
(* Properties of the insertion scripts.                                    *)
(***************************************************************************)
\* the run has inserted and written
InsertedNow == Inserting /\ pc = "done" /\ writes = 1

\* the pattern of the running script matches text at the 1-based position i
AnchorAt(text, i) ==
    IF script = "add_wrapper"
    THEN i + Len(WrapperAnchor) - 1 <= Len(text)
         /\ SubSeq(text, i, i + Len(WrapperAnchor) - 1) = WrapperAnchor
    ELSE IntegrateMatchAt(text, i)

\* i is where the first match of the pattern starts in text
FirstAnchor(text, i) ==
    /\ AnchorAt(text, i)
    /\ \A j \in 1..(i - 1) : ~AnchorAt(text, j)

\* C4 as stated: the patched file is buffer[0:offset] + content + buffer[offset:]
\* and nothing else.
C4_AsStated ==
    InsertedNow =>
        \E i \in 1..Len(orig) :
            /\ FirstAnchor(orig, i)
            /\ Text(disk) = SubSeq(orig, 1, i - 1) \o new_methods \o From(orig, i)

\* C4 amended: the patched file is buffer[0:offset] + content + "\n" + buffer[offset:]
\* in add-wrapper-methods.py and buffer[0:offset] + "\n" + content + "\n" +
\* buffer[offset:] in integrate.py, offset being the start of the first match.
C4_SpliceWithNewlines ==
    InsertedNow =>
        \E i \in 1..Len(orig) :
            /\ FirstAnchor(orig, i)
            /\ Text(disk) =
                  SubSeq(orig, 1, i - 1)
                  \o (IF script = "add_wrapper" THEN "" ELSE "\n")
                  \o new_methods \o "\n"
                  \o From(orig, i)

\* the scenario of the spec, run by integrate.py
C4_Witness ==
    /\ InsertedNow /\ script = "integrate"
    /\ orig = ScenarioText
    /\ new_methods = "  g() {}\n"
    /\ Text(disk) = "class X {\n  f() {}\n\n  g() {}\n\n}\n\n" \o ExposeCall

\* C8: after an insertion the pattern still matches the patched file, and a second
\* run of the script that follows a run that inserted inserts again: the file it
\* leaves is the file the first run left with one more copy of the inserted text
\* put in at the first match, so it is longer by that text and differs from it; the
\* text of add-wrapper-methods.py occurs once more in it.
C8_NotIdempotent ==
    /\ InsertedNow => \E i \in 1..Len(Text(disk)) : AnchorAt(Text(disk), i)
    /\ (Inserting /\ pc = "done" /\ runs >= 2 /\ out[runs - 1] = "Successfully added") =>
          /\ out[runs] = "Successfully added"
          /\ writes = 1
          /\ Text(disk) # orig
          /\ Len(Text(disk)) = Len(orig) + Len(Inserted)
          /\ \E i \in 1..Len(orig) :
                /\ FirstAnchor(orig, i)
                /\ Text(disk) = SubSeq(orig, 1, i - 1) \o Inserted \o From(orig, i)
          /\ script = "add_wrapper" =>
                Count(Text(disk), new_methods) = Count(orig, new_methods) + 1

\* two runs in a row inserted
C8_Witness ==
    /\ Inserting /\ pc = "done" /\ runs = 2
    /\ out = <<"Successfully added", "Successfully added">>
    /\ Count(Text(disk), new_methods) >= 2

(***************************************************************************)
(* Properties of the literal replacement.                                  *)
(***************************************************************************)
\* update-interface.py has replaced and written
Replaced == script = "update_interface" /\ pc = "done"

\* s and r have no character in common
NoCommonChar(s, r) ==
    \A i \in 1..Len(s) : \A j \in 1..Len(r) : Char(s, i) # Char(r, j)

\* C5 as stated: for a non-empty s and an r that does not contain s, the result
\* holds no s, and holds as many r as the text held r and s together.
C5_AsStated ==
    (Replaced /\ special.search # "" /\ ~Contains(special.replace, special.search)) =>
        /\ Count(Text(disk), special.search) = 0
        /\ Count(Text(disk), special.replace) =
              Count(orig, special.replace) + Count(orig, special.search)

\* C5 amended: for non-empty s and r with no character in common, the result holds
\* no s and at least as many r as the text held r and s together, exactly as many
\* when r is one character.
C5_DisjointLiterals ==
    (Replaced /\ special.search # "" /\ special.replace # ""
        /\ NoCommonChar(special.search, special.replace)) =>
        /\ Count(Text(disk), special.search) = 0
        /\ Count(Text(disk), special.replace) >=
              Count(orig, special.replace) + Count(orig, special.search)
        /\ Len(special.replace) = 1 =>
              Count(Text(disk), special.replace) =
                  Count(orig, special.replace) + Count(orig, special.search)

\* "bab" with "a" replaced by "bb": two "bb" where the text held none and one "a"
C5_Witness ==
    /\ Replaced
    /\ special = [search |-> "a", replace |-> "bb"]
    /\ orig = "bab"
    /\ Text(disk) = "bbbb"

(***************************************************************************)
(* Writes of a run.                                                        *)
(***************************************************************************)
\* the run has read the file it patches
HasRead ==
    \/ script = "remove_todos" /\ pc \in {"delete", "write", "done", "crashed"} /\ disk # NoFile
    \/ script # "remove_todos" /\ pc \notin {"start"} /\ disk # NoFile

====
